---- MODULE Spec2Model ----
(***************************************************************************)
(* Gesture detection pipeline: per-sample signal conditioning              *)
(* (GesturePreprocessor::filterDistances), the episode state machine       *)
(* (GesturePreprocessor::update), the episode accumulator (appendSample,   *)
(* finalizeEpisode) and the classifier (classifyEpisode).                  *)
(*                                                                         *)
(* Sensors are indexed 0 (left), 1 (right), 2 (top) as in the source.      *)
(* Fixed-width integers keep their width: uint8 (% 2^8), uint16 (% 2^16),  *)
(* int16 (two's complement truncation); uint32 timestamps stay below 2^31. *)
(***************************************************************************)
EXTENDS Integers, Sequences, FiniteSets, TLC

----------------------------------------------------------------------------
(* Program constants (GesturePreprocessor.hpp, GestureClassifier.hpp) *)

D_MIN_MM == 30
D_MAX_MM == 140
ENTER_COUNT == 1
EXIT_COUNT == 2
MIN_EPISODE_MS == 20
MAX_EPISODE_MS == 2000
MIN_SWING_MM == 5
NEAR_LAYER_TH_MM == 20
COOLDOWN_MS == 5
INVALID_RESET_COUNT == 50
MIN_VEL == 200
GAP_MIN == 5
GAP_MAX == 1500
TAP_SWING == 20
TAP_VEL == 60
SWIPE_SWING == 5
NO_READING == 65535

Sensors == 0 .. 2

----------------------------------------------------------------------------
(* Fixed-width arithmetic *)

U8(x) == x % 256
U16(x) == x % 65536

\* uint32_t timestamps: the clock values explored stay far below 2^31 and the
\* clock never runs backwards, so no uint32_t sum or difference of the code
\* wraps; TLC's integers are 32-bit and cannot hold 2^32 itself
U32(x) == x

\* conversion to int16_t: keep the low 16 bits, read as two's complement
I16(x) == LET u == x % 65536 IN IF u >= 32768 THEN u - 65536 ELSE u

\* conversion of a uint32_t to int32_t: the identity below 2^31
I32(x) == x

\* C++ integer division, truncating toward zero (b # 0)
TDiv(a, b) ==
    IF (a >= 0) = (b > 0)
    THEN (IF a >= 0 THEN a ELSE -a) \div (IF b > 0 THEN b ELSE -b)
    ELSE -((IF a >= 0 THEN a ELSE -a) \div (IF b > 0 THEN b ELSE -b))

Min2(a, b) == IF a <= b THEN a ELSE b
Max2(a, b) == IF a >= b THEN a ELSE b
Dist(a, b) == IF a >= b THEN a - b ELSE b - a

----------------------------------------------------------------------------
(* Signal conditioner *)

inBand(d) == d >= D_MIN_MM /\ d <= D_MAX_MM

median3(a, b, c) ==
    LET a1 == IF a > b THEN b ELSE a
        b1 == IF a > b THEN a ELSE b
        b2 == IF b1 > c THEN c ELSE b1
        a2 == a1
        b3 == IF a2 > b2 THEN a2 ELSE b2
    IN  b3

\* a raw reading that carries a distance (neither 0 nor the 0xFFFF sentinel)
isReading(r) == r # 0 /\ r # NO_READING

\* variant: a weight of 1/8 instead of 1/4 for the candidate
EmaStepEighth(old, mi) == U16((7 * old + mi) \div 8)

\* variant: the factor 3 applied to the sum instead of the old value
EmaStepMisplaced(old, mi) == U16((3 * (old + mi)) \div 4)

\* the integer exponential moving average of an already-set smoothed value
EmaStep(old, mi) == U16((3 * old + mi) \div 4)

\* the candidate m[i]: the raw reading, or the median of the history
Candidate(hist, r) ==
    IF isReading(r) THEN r ELSE median3(hist[0], hist[1], hist[2])

\* zMinFrame of filterDistances: the smallest candidate that is a reading
FrameMinStep(z, mi) == IF isReading(mi) /\ mi < z THEN mi ELSE z

FrameMin(m) == FrameMinStep(FrameMinStep(FrameMinStep(NO_READING, m[0]), m[1]), m[2])

\* variant: the nearest-layer limit is not applied
AcceptsAnyLayer(mi, zMaxAllowed) ==
    isReading(mi) /\ (mi >= D_MIN_MM /\ mi <= D_MAX_MM)

\* thisValid of filterDistances
Accepts(mi, zMaxAllowed) ==
    isReading(mi) /\ (mi >= D_MIN_MM /\ mi <= D_MAX_MM) /\ mi <= zMaxAllowed

\* variant: the smoothed value is never forgotten
RejectedKeeps(f, ic) ==
    [filt |-> f, invalidCount |-> IF ic < 255 THEN ic + 1 ELSE ic]

\* variant: the 8-bit counter is incremented without the test against 255
RejectedWraps(f, ic) ==
    LET ic1 == U8(ic + 1)
    IN  [filt |-> IF ic1 >= INVALID_RESET_COUNT THEN 0 ELSE f, invalidCount |-> ic1]

\* the rejected branch: count the invalid frame, forget the value at the limit
Rejected(f, ic) ==
    LET ic1 == IF ic < 255 THEN ic + 1 ELSE ic
    IN  [filt |-> IF ic1 >= INVALID_RESET_COUNT THEN 0 ELSE f, invalidCount |-> ic1]

\* the accepted branch
Accepted(f, mi) ==
    [filt |-> IF f = 0 THEN mi ELSE EmaStep(f, mi), invalidCount |-> 0]

\* the candidates m[] of a filterDistances call, after the history write
candidates(g, raw) ==
    LET idx == (g.rawIdx + 1) % 3
    IN  [i \in Sensors |-> Candidate([g.rawHist[i] EXCEPT ![idx] = raw[i]], raw[i])]

\* which sensors' candidates a filterDistances call accepts
acceptedOf(g, raw) ==
    LET m == candidates(g, raw)
        zMinFrame == FrameMin(m)
        zMaxAllowed == U16(zMinFrame + NEAR_LAYER_TH_MM)
    IN  [i \in Sensors |-> zMinFrame # NO_READING /\ Accepts(m[i], zMaxAllowed)]

\* filterDistances: g is the preprocessor object, raw the three raw readings
filterDistances(g, raw) ==
    LET idx == (g.rawIdx + 1) % 3
        m == candidates(g, raw)
        ok == acceptedOf(g, raw)
        res == [i \in Sensors |->
                   IF ok[i] THEN Accepted(g.filt[i], m[i])
                   ELSE Rejected(g.filt[i], g.invalidCount[i])]
    IN  [g EXCEPT !.rawIdx = idx,
                  !.rawHist = [i \in Sensors |-> [g.rawHist[i] EXCEPT ![idx] = raw[i]]],
                  !.filt = [i \in Sensors |-> res[i].filt],
                  !.invalidCount = [i \in Sensors |-> res[i].invalidCount]]

----------------------------------------------------------------------------
(* Episode accumulator *)

ClearedEpisode ==
    [tStartMs |-> 0, tEndMs |-> 0,
     dMin |-> [i \in Sensors |-> NO_READING],
     dMax |-> [i \in Sensors |-> 0],
     sampleCount |-> 0, winnerChanges |-> 0,
     firstSeenMs |-> [i \in Sensors |-> 0],
     lastSeenMs |-> [i \in Sensors |-> 0],
     maxApproachVel |-> [i \in Sensors |-> 0]]

\* variant: the episode is not cleared
resetKeepsEpisode(g) ==
    [g EXCEPT !.state = "Idle", !.enterCount = 0, !.exitCount = 0,
              !.cooldownUntil = 0, !.rawIdx = 0, !.lastWinner = -1,
              !.filt = [i \in Sensors |-> 0],
              !.invalidCount = [i \in Sensors |-> 0],
              !.lastFiltForVel = [i \in Sensors |-> 0],
              !.lastTimeForVel = [i \in Sensors |-> 0],
              !.rawHist = [i \in Sensors |-> [j \in 0 .. 2 |-> 0]]]

\* variant: the smoothed values survive the reset
resetKeepsFilters(g) ==
    [g EXCEPT !.state = "Idle", !.enterCount = 0, !.exitCount = 0,
              !.cooldownUntil = 0, !.rawIdx = 0, !.lastWinner = -1,
              !.invalidCount = [i \in Sensors |-> 0],
              !.lastFiltForVel = [i \in Sensors |-> 0],
              !.lastTimeForVel = [i \in Sensors |-> 0],
              !.rawHist = [i \in Sensors |-> [j \in 0 .. 2 |-> 0]],
              !.ep = ClearedEpisode]

\* reset(): back to Idle, filters, velocity history and episode cleared
reset(g) ==
    [g EXCEPT !.state = "Idle", !.enterCount = 0, !.exitCount = 0,
              !.cooldownUntil = 0, !.rawIdx = 0, !.lastWinner = -1,
              !.filt = [i \in Sensors |-> 0],
              !.invalidCount = [i \in Sensors |-> 0],
              !.lastFiltForVel = [i \in Sensors |-> 0],
              !.lastTimeForVel = [i \in Sensors |-> 0],
              !.rawHist = [i \in Sensors |-> [j \in 0 .. 2 |-> 0]],
              !.ep = ClearedEpisode]

startEpisode(g, nowMs) ==
    [g EXCEPT !.ep = [ClearedEpisode EXCEPT !.tStartMs = nowMs,
                                            !.tEndMs = g.ep.tEndMs],
              !.lastWinner = -1]

\* the per-sample approach velocity candidate of one sensor; -1 when the
\* sample yields none (no previous value, no elapsed time, not approaching)
ApproachVel(lastFilt, lastTime, d, nowMs) ==
    IF lastFilt # 0 /\ d # 0 /\ lastTime # 0
    THEN LET dt == U32(nowMs - lastTime)
             dv == I16(I16(lastFilt) - I16(d))
         IN  IF dt > 0 /\ dv > 0 THEN I16(TDiv(dv * 1000, I32(dt))) ELSE -1
    ELSE -1

\* variant: the first-seen time follows every valid sample
FirstSeenLatest(old, nowMs) == nowMs

\* first-seen time of a valid sensor: set only while still 0
FirstSeen(old, nowMs) == IF old = 0 THEN nowMs ELSE old

\* variant: the maximum is tested only when the minimum did not move (else-if)
SwingStatsElseIf(dMin, dMax, d) ==
    [dMin |-> IF d < dMin THEN d ELSE dMin,
     dMax |-> IF ~(d < dMin) /\ d > dMax THEN d ELSE dMax]

\* running minimum / maximum of a valid sensor's smoothed distance: two
\* independent tests, so the first valid sample sets both
SwingStats(dMin, dMax, d) ==
    [dMin |-> IF d < dMin THEN d ELSE dMin, dMax |-> IF d > dMax THEN d ELSE dMax]

\* the winner loop of appendSample: w is <<best, winner>> so far
WinnerStep(w, i, d, v) == IF v /\ d < w[1] THEN <<d, i>> ELSE w

\* the winner of a sample: the first valid sensor with the smallest distance
Winner(filt, valid) ==
    WinnerStep(WinnerStep(WinnerStep(<<NO_READING, -1>>, 0, filt[0], valid[0]),
                          1, filt[1], valid[1]),
               2, filt[2], valid[2])[2]

appendSample(g, valid, nowMs) ==
    LET e == g.ep
        vel == [i \in Sensors |->
                   ApproachVel(g.lastFiltForVel[i], g.lastTimeForVel[i], g.filt[i], nowMs)]
        winner == Winner(g.filt, valid)
        e1 == [e EXCEPT
                 !.sampleCount = U8(e.sampleCount + 1),
                 !.firstSeenMs = [i \in Sensors |->
                     IF valid[i] THEN FirstSeen(e.firstSeenMs[i], nowMs) ELSE e.firstSeenMs[i]],
                 !.lastSeenMs = [i \in Sensors |->
                     IF valid[i] THEN nowMs ELSE e.lastSeenMs[i]],
                 !.maxApproachVel = [i \in Sensors |->
                     IF valid[i] /\ vel[i] > e.maxApproachVel[i] THEN vel[i]
                     ELSE e.maxApproachVel[i]],
                 !.dMin = [i \in Sensors |->
                     IF valid[i] THEN SwingStats(e.dMin[i], e.dMax[i], g.filt[i]).dMin
                     ELSE e.dMin[i]],
                 !.dMax = [i \in Sensors |->
                     IF valid[i] THEN SwingStats(e.dMin[i], e.dMax[i], g.filt[i]).dMax
                     ELSE e.dMax[i]],
                 !.winnerChanges =
                     IF winner >= 0 /\ g.lastWinner >= 0 /\ winner # g.lastWinner
                     THEN U8(e.winnerChanges + 1) ELSE e.winnerChanges]
    IN  [g EXCEPT !.ep = e1,
                  !.lastFiltForVel = g.filt,
                  !.lastTimeForVel = [i \in Sensors |-> nowMs],
                  !.lastWinner = IF winner >= 0 THEN winner ELSE g.lastWinner]

\* swing of one sensor: 0 when never valid, else the uint16 difference
swingOf(e, i) == IF e.dMin[i] = NO_READING THEN 0 ELSE U16(e.dMax[i] - e.dMin[i])

MaxOf3(a, b, c) == Max2(Max2(a, b), c)

\* the largest per-sensor swing, as finalizeEpisode computes it
maxSwingOf(e) == MaxOf3(swingOf(e, 0), swingOf(e, 1), swingOf(e, 2))

\* the largest per-sensor peak approach velocity
maxVOf(e) == MaxOf3(e.maxApproachVel[0], e.maxApproachVel[1], e.maxApproachVel[2])

\* the three rejections of finalizeEpisode, on the episode with tEndMs set
TooFewSamples(e) == e.sampleCount < 2
TooShort(e) == U32(e.tEndMs - e.tStartMs) < MIN_EPISODE_MS

\* variant: either weakness alone rejects
TooWeakEither(e) == maxSwingOf(e) < MIN_SWING_MM \/ maxVOf(e) < MIN_VEL

TooWeak(e) == maxSwingOf(e) < MIN_SWING_MM /\ maxVOf(e) < MIN_VEL

\* variant: the swing-and-velocity test is missing
finalizeOkNoWeak(e) == ~TooFewSamples(e) /\ ~TooShort(e)

\* variant: the duration test is missing
finalizeOkNoDuration(e) == ~TooFewSamples(e) /\ ~TooWeak(e)

\* finalizeEpisode: sets tEndMs, then accepts or rejects
finalizeOk(e) == ~TooFewSamples(e) /\ ~TooShort(e) /\ ~TooWeak(e)

finalizeEpisode(g, nowMs) ==
    LET e == [g.ep EXCEPT !.tEndMs = nowMs]
    IN  [g |-> [g EXCEPT !.ep = e], ok |-> finalizeOk(e)]

----------------------------------------------------------------------------
(* Classifier *)

\* variant: the velocity floor is exclusive
TapRuleStrict(e) ==
    /\ swingOf(e, 0) > TAP_SWING /\ swingOf(e, 1) > TAP_SWING
    /\ maxVOf(e) > TAP_VEL

\* the Tap test: both bottom sensors active with swing > 20, and a fast approach
TapRule(e) ==
    /\ swingOf(e, 0) > 0 /\ swingOf(e, 1) > 0
    /\ swingOf(e, 0) > TAP_SWING /\ swingOf(e, 1) > TAP_SWING
    /\ maxVOf(e) >= TAP_VEL

\* variant: the lower gap bound is exclusive
GapOkExclusive(gap) == gap > GAP_MIN /\ gap <= GAP_MAX

\* the gap test of both swipe rules
GapOk(gap) == gap >= GAP_MIN /\ gap <= GAP_MAX

\* "later > earlier && (later - earlier) >= GAP_MIN && (later - earlier) <= GAP_MAX"
Follows(later, earlier) == later > earlier /\ GapOk(U32(later - earlier))

\* variant: the two labels are exchanged
LeftRightRuleSwapped(e) ==
    IF /\ swingOf(e, 0) > 0 /\ swingOf(e, 1) > 0
       /\ e.firstSeenMs[0] # 0 /\ e.firstSeenMs[1] # 0
       /\ (swingOf(e, 0) > SWIPE_SWING \/ swingOf(e, 1) > SWIPE_SWING)
       /\ ~(swingOf(e, 2) > 0)
    THEN IF Follows(e.firstSeenMs[1], e.firstSeenMs[0]) THEN "Left"
         ELSE IF Follows(e.firstSeenMs[0], e.firstSeenMs[1]) THEN "Right"
         ELSE "None"
    ELSE "None"

\* the Left/Right rule: its label, or "None" when it does not match
LeftRightRule(e) ==
    LET swingL == swingOf(e, 0)
        swingR == swingOf(e, 1)
        tL == e.firstSeenMs[0]
        tR == e.firstSeenMs[1]
    IN  IF /\ swingL > 0 /\ swingR > 0 /\ tL # 0 /\ tR # 0
           /\ (swingL > SWIPE_SWING \/ swingR > SWIPE_SWING)
           /\ ~(swingOf(e, 2) > 0)
        THEN IF Follows(tR, tL) THEN "Right"
             ELSE IF Follows(tL, tR) THEN "Left"
             ELSE "None"
        ELSE "None"

\* tBottom: the earlier nonzero first-seen time of the active bottom sensors
BottomTime(e) ==
    LET t0 == IF swingOf(e, 0) > 0 /\ e.firstSeenMs[0] # 0 THEN e.firstSeenMs[0] ELSE 0
    IN  IF swingOf(e, 1) > 0 /\ e.firstSeenMs[1] # 0
        THEN IF t0 = 0 \/ e.firstSeenMs[1] < t0 THEN e.firstSeenMs[1] ELSE t0
        ELSE t0

\* variant: the two labels are exchanged
UpDownRuleSwapped(e) ==
    IF /\ BottomTime(e) # 0 /\ e.firstSeenMs[2] # 0
       /\ (swingOf(e, 0) > SWIPE_SWING \/ swingOf(e, 1) > SWIPE_SWING
             \/ swingOf(e, 2) > SWIPE_SWING)
    THEN IF Follows(e.firstSeenMs[2], BottomTime(e)) THEN "Down"
         ELSE IF Follows(BottomTime(e), e.firstSeenMs[2]) THEN "Up"
         ELSE "None"
    ELSE "None"

\* the Up/Down rule: its label, or "None" when it does not match
UpDownRule(e) ==
    LET tBottom == BottomTime(e)
        tTop == e.firstSeenMs[2]
    IN  IF /\ tBottom # 0 /\ tTop # 0
           /\ (swingOf(e, 0) > SWIPE_SWING \/ swingOf(e, 1) > SWIPE_SWING
                 \/ swingOf(e, 2) > SWIPE_SWING)
        THEN IF Follows(tTop, tBottom) THEN "Up"
             ELSE IF Follows(tBottom, tTop) THEN "Down"
             ELSE "None"
        ELSE "None"

\* classifyEpisode: the first rule that matches decides
classifyEpisode(e) ==
    IF TapRule(e) THEN "Tap"
    ELSE IF LeftRightRule(e) # "None" THEN LeftRightRule(e)
    ELSE UpDownRule(e)

----------------------------------------------------------------------------
(* Episode state machine *)

\* zMinFrame of update(): the smallest in-band smoothed value, else 0xFFFF
FiltMinStep(z, f) == IF inBand(f) /\ f < z THEN f ELSE z

FiltMin(filt) == FiltMinStep(FiltMinStep(FiltMinStep(NO_READING, filt[0]), filt[1]), filt[2])

\* variant: the nearest-layer test is missing
ValidAtNoLayer(f, zMinFrame) == zMinFrame # NO_READING /\ inBand(f)

\* validity of one sensor in update(), given the frame minimum
ValidAt(f, zMinFrame) ==
    zMinFrame # NO_READING /\ inBand(f) /\ f <= U16(zMinFrame + NEAR_LAYER_TH_MM)

validOf(filt) ==
    \* the frame minimum is computed once, before the validity loop
    LET zs == { FiltMin(filt) }
    IN  [i \in Sensors |-> \E z \in zs : ValidAt(filt[i], z)]

\* finalize-then-transition-or-reset, shared by the timeout and the exit path
finishEpisode(g, nowMs) ==
    LET f == finalizeEpisode(g, nowMs)
    IN  IF f.ok
        THEN [g |-> [f.g EXCEPT !.state = "Cooldown",
                                !.cooldownUntil = U32(nowMs + COOLDOWN_MS)],
              event |-> "EpisodeReady", fin |-> "accepted"]
        ELSE [g |-> reset(f.g), event |-> "None", fin |-> "rejected"]

\* variant: the triggering sample is not appended to the new episode
updateIdleNoAppend(g, valid, anyValid, nowMs) ==
    LET g1 == IF anyValid
              THEN LET ec == U8(g.enterCount + 1)
                   IN  IF ec >= ENTER_COUNT
                       THEN [startEpisode(g, nowMs)
                                EXCEPT !.state = "Tracking", !.enterCount = 0]
                       ELSE [g EXCEPT !.enterCount = ec]
              ELSE [g EXCEPT !.enterCount = 0]
    IN  [g |-> [g1 EXCEPT !.exitCount = 0], event |-> "None", fin |-> "none"]

updateIdle(g, valid, anyValid, nowMs) ==
    LET g1 == IF anyValid
              THEN LET ec == U8(g.enterCount + 1)
                   IN  IF ec >= ENTER_COUNT
                       THEN [appendSample(startEpisode(g, nowMs), valid, nowMs)
                                EXCEPT !.state = "Tracking", !.enterCount = 0]
                       ELSE [g EXCEPT !.enterCount = ec]
              ELSE [g EXCEPT !.enterCount = 0]
    IN  [g |-> [g1 EXCEPT !.exitCount = 0], event |-> "None", fin |-> "none"]

\* variant: on a timeout the episode is finalized without the sample
updateTrackingFinalizesFirst(g, valid, anyValid, nowMs) ==
    IF anyValid
    THEN LET g0 == [g EXCEPT !.exitCount = 0]
         IN  IF U32(nowMs - g0.ep.tStartMs) > MAX_EPISODE_MS
             THEN finishEpisode(g0, nowMs)
             ELSE [g |-> appendSample(g0, valid, nowMs), event |-> "None",
                   fin |-> "none"]
    ELSE LET xc == U8(g.exitCount + 1)
             g1 == [g EXCEPT !.exitCount = xc]
         IN  IF xc >= EXIT_COUNT
             THEN finishEpisode(g1, nowMs)
             ELSE [g |-> g1, event |-> "None", fin |-> "none"]

\* variant: an any-valid sample leaves the exit counter where it was
updateTrackingKeepsExitCount(g, valid, anyValid, nowMs) ==
    IF anyValid
    THEN LET g1 == appendSample(g, valid, nowMs)
         IN  IF U32(nowMs - g1.ep.tStartMs) > MAX_EPISODE_MS
             THEN finishEpisode(g1, nowMs)
             ELSE [g |-> g1, event |-> "None", fin |-> "none"]
    ELSE LET xc == U8(g.exitCount + 1)
             g1 == [g EXCEPT !.exitCount = xc]
         IN  IF xc >= EXIT_COUNT
             THEN finishEpisode(g1, nowMs)
             ELSE [g |-> g1, event |-> "None", fin |-> "none"]

updateTracking(g, valid, anyValid, nowMs) ==
    IF anyValid
    THEN LET g1 == appendSample([g EXCEPT !.exitCount = 0], valid, nowMs)
         IN  IF U32(nowMs - g1.ep.tStartMs) > MAX_EPISODE_MS
             THEN finishEpisode(g1, nowMs)
             ELSE [g |-> g1, event |-> "None", fin |-> "none"]
    ELSE LET xc == U8(g.exitCount + 1)
             g1 == [g EXCEPT !.exitCount = xc]
         IN  IF xc >= EXIT_COUNT
             THEN finishEpisode(g1, nowMs)
             ELSE [g |-> g1, event |-> "None", fin |-> "none"]

\* variant: the event is returned again on every sample spent in Cooldown
updateCooldownReemits(g, anyValid, nowMs) ==
    IF ~anyValid /\ nowMs >= g.cooldownUntil
    THEN [g |-> reset(g), event |-> "None", fin |-> "none"]
    ELSE [g |-> g, event |-> "EpisodeReady", fin |-> "none"]

\* variant: a hand still in range at the deadline goes straight on to Tracking
updateCooldownRestarts(g, anyValid, nowMs) ==
    IF nowMs >= g.cooldownUntil
    THEN IF anyValid
         THEN [g |-> [g EXCEPT !.state = "Tracking"], event |-> "None", fin |-> "none"]
         ELSE [g |-> reset(g), event |-> "None", fin |-> "none"]
    ELSE [g |-> g, event |-> "None", fin |-> "none"]

\* variant: the deadline alone ends the Cooldown
updateCooldownDeadlineOnly(g, anyValid, nowMs) ==
    IF nowMs >= g.cooldownUntil
    THEN [g |-> reset(g), event |-> "None", fin |-> "none"]
    ELSE [g |-> g, event |-> "None", fin |-> "none"]

\* variant: a sample spent in Cooldown moves the episode's end time
updateCooldownTouchesEpisode(g, anyValid, nowMs) ==
    IF ~anyValid /\ nowMs >= g.cooldownUntil
    THEN [g |-> reset(g), event |-> "None", fin |-> "none"]
    ELSE [g |-> [g EXCEPT !.ep.tEndMs = nowMs], event |-> "None", fin |-> "none"]

updateCooldown(g, anyValid, nowMs) ==
    IF ~anyValid /\ nowMs >= g.cooldownUntil
    THEN [g |-> reset(g), event |-> "None", fin |-> "none"]
    ELSE [g |-> g, event |-> "None", fin |-> "none"]

\* update(d0, d1, d2, nowMs): the new object, the returned event, what
\* finalizeEpisode returned if this call made it ("none" otherwise), and the
\* conditioning output of this call (smoothed values and validity flags)
update(g, raw, nowMs) ==
    LET g1 == filterDistances(g, raw)
        valid == validOf(g1.filt)
        anyValid == valid[0] \/ valid[1] \/ valid[2]
        r == CASE g1.state = "Idle" -> updateIdle(g1, valid, anyValid, nowMs)
               [] g1.state = "Tracking" -> updateTracking(g1, valid, anyValid, nowMs)
               [] g1.state = "Cooldown" -> updateCooldown(g1, anyValid, nowMs)
    IN  [g |-> r.g, event |-> r.event, fin |-> r.fin, valid |-> valid,
         smoothed |-> g1.filt]

\* the object after construction: GesturePreprocessor() { reset(); }
NewPreprocessor ==
    [state |-> "Idle", enterCount |-> 0, exitCount |-> 0, cooldownUntil |-> 0,
     rawHist |-> [i \in Sensors |-> [j \in 0 .. 2 |-> 0]], rawIdx |-> 0,
     filt |-> [i \in Sensors |-> 0], invalidCount |-> [i \in Sensors |-> 0],
     lastFiltForVel |-> [i \in Sensors |-> 0],
     lastTimeForVel |-> [i \in Sensors |-> 0],
     ep |-> ClearedEpisode, lastWinner |-> -1]

----------------------------------------------------------------------------
(* The pipeline driven by its caller: one update() call per sample *)

VARIABLES
    gp,        \* the GesturePreprocessor object
    clock,     \* the timestamp passed to the latest update() call
    event,     \* what the latest update() call returned
    valid,     \* the validity flags the latest update() call computed
    smoothed,  \* filt[] as the latest update() call judged it
    cand,      \* the candidates m[] of the latest conditioning call
    accepted,  \* which candidates the latest conditioning call accepted
    steps,     \* update() calls made so far
    ticks,     \* calls so far that advanced the clock
    cep,       \* the episode handed to classifyEpisode or finalizeEpisode
    label,     \* what classifyEpisode returned for cep ("Unset" before the call)
    hold,      \* the reading fed repeatedly to the conditioner (0: none yet)
    fin,       \* what finalizeEpisode returned in the latest call, if called
    readies,   \* EpisodeReady events returned so far
    idleSeen,  \* the machine has been in Idle since the latest EpisodeReady
    appends,   \* samples appended to the episode being tracked or handed over
    scene,     \* the raw triple of a static background
    sdMutex,   \* the task holding the shared SD mutex ("none": free)
    pc,        \* where each task that uses the SD card is
    uploadFile,    \* the web file manager's upload file is open
    g_cmdVolDelta, \* the pending volume steps
    g_volume,      \* the software gain, in twentieths
    delta,         \* the audio task's local copy of g_cmdVolDelta
    reg,           \* the gesture task's register during ++ or --
    cmdPc,         \* where the gesture task and the audio task are in the
                   \* volume code
    ups,           \* volumeUp() calls made so far
    downs,         \* volumeDown() calls made so far
    applied        \* the sum of the deltas the audio task has applied

\* the state of the gesture pipeline and of its observers
gestureVars == <<gp, clock, event, valid, smoothed, cand, accepted, steps,
                 ticks, cep, label, hold, fin, readies, idleSeen, appends,
                 scene>>

\* the state of the tasks that share the SD card
sdVars == <<sdMutex, pc, uploadFile>>

\* the volume command, the gain and the observers of the volume code
volVars == <<g_cmdVolDelta, g_volume, delta, reg, cmdPc, ups, downs, applied>>

vars == <<gestureVars, sdVars, volVars>>

\* the tasks that use the SD card: the audio player task, the task that runs
\* the web server's handlers, and a task that logs
Tasks == { "audioTask", "webTask", "logTask" }

\* no task has touched the SD card yet
SdIdle ==
    /\ sdMutex = "none"
    /\ pc = [t \in Tasks |-> "idle"]
    /\ uploadFile = FALSE

\* g_volume counted in twentieths: startPlayer sets 0.05f, a volume step is
\* 0.1f and the gain is kept within 0.0f .. 2.0f
VOL_START == 1
VOL_STEP == 2
VOL_MAX == 40

\* the two tasks that run the volume code
CmdTasks == { "gestureTask", "audioTask" }

\* the player was started and no volume command was issued yet
VolIdle ==
    /\ g_cmdVolDelta = 0
    /\ g_volume = VOL_START
    /\ delta = 0
    /\ reg = 0
    /\ cmdPc = [t \in CmdTasks |-> "idle"]
    /\ ups = 0
    /\ downs = 0
    /\ applied = 0

\* bounds of the exploration: the hand is in range during the first MaxBurst
\* samples at most, the caller takes MaxSteps samples and advances the clock
\* between two samples MaxTicks times (samples may share a timestamp)
MaxBurst == 2
MaxSteps == 56
MaxTicks == 1

Frame(a, b, c) == (0 :> a) @@ (1 :> b) @@ (2 :> c)

\* the sample with no reading on any sensor
Quiet == Frame(0, 0, 0)

\* the raw triples the caller may pass
Frames ==
    { Quiet,
      Frame(50, 0, 0), Frame(70, 60, 0), Frame(0, 100, 0),
      Frame(20, 50, 45), Frame(200, NO_READING, 45) }

\* the clock advances the caller may make between two samples
Deltas == { 0, 20, 2001 }

NoFlags == [i \in Sensors |-> FALSE]
NoValues == [i \in Sensors |-> 0]

\* nothing observed yet: no finalize, no event, no sample appended; the
\* machine starts in Idle
Unobserved == fin = "none" /\ readies = 0 /\ idleSeen = TRUE /\ appends = 0

Init ==
    /\ Unobserved
    /\ SdIdle
    /\ VolIdle
    /\ scene = Quiet
    /\ gp = NewPreprocessor
    /\ clock = 0
    /\ event = "None"
    /\ valid = NoFlags
    /\ smoothed = NoValues
    /\ cand = NoValues
    /\ accepted = NoFlags
    /\ steps = 0
    /\ ticks = 0
    /\ cep = ClearedEpisode
    /\ label = "Unset"
    /\ hold = 0

\* one update(d0, d1, d2, nowMs) call
Update(raw, nowMs) ==
    \E r \in { update(gp, raw, nowMs) } :
        /\ gp' = r.g
        /\ clock' = nowMs
        /\ event' = r.event
        /\ valid' = r.valid
        /\ smoothed' = r.smoothed
        /\ cand' = candidates(gp, raw)
        /\ accepted' = acceptedOf(gp, raw)
        /\ fin' = r.fin
        /\ readies' = IF r.event = "EpisodeReady" THEN readies + 1 ELSE readies
        /\ idleSeen' = IF r.event = "EpisodeReady" THEN FALSE
                       ELSE idleSeen \/ r.g.state = "Idle"
        \* the starting sample counts 1, every any-valid sample met in
        \* Tracking one more; the count is dropped with the episode
        /\ appends' = IF r.g.state = "Idle" THEN 0
                      ELSE IF gp.state = "Idle" THEN 1
                      ELSE IF gp.state = "Tracking"
                              /\ (r.valid[0] \/ r.valid[1] \/ r.valid[2])
                           THEN appends + 1
                           ELSE appends
        /\ UNCHANGED <<sdVars, volVars>>

Sample ==
    \E raw \in Frames, dt \in Deltas :
        /\ steps < MaxSteps
        /\ raw # Quiet => steps < MaxBurst
        /\ dt # 0 => ticks < MaxTicks
        /\ Update(raw, clock + dt)
        /\ steps' = steps + 1
        /\ ticks' = IF dt # 0 THEN ticks + 1 ELSE ticks
        /\ UNCHANGED <<cep, label, hold, scene>>

Next == Sample

Spec == Init /\ [][Next]_vars

----------------------------------------------------------------------------
(* A session of several gestures *)

\* the caller samples at a fixed pace of Pace ms; the hand comes in range only
\* during the first MaxBurst samples of each stretch of Stretch samples, and
\* the session lasts MaxSession samples
Stretch == 54
MaxSession == 165
Pace == 2

SessionFrames == { Quiet, Frame(50, 0, 0), Frame(70, 60, 0), Frame(0, 100, 0) }

SessionSample ==
    \E raw \in SessionFrames :
        /\ steps < MaxSession
        /\ raw # Quiet => steps % Stretch < MaxBurst
        /\ Update(raw, clock + Pace)
        /\ steps' = steps + 1
        /\ ticks' = ticks + 1
        /\ UNCHANGED <<cep, label, hold, scene>>

SpecSession == Init /\ [][SessionSample]_vars

----------------------------------------------------------------------------
(* The hand leaves for good: after a burst, no sensor reports a reading *)

\* after the burst the caller takes MaxDrain more samples
MaxDrain == 60

\* no reading on any sensor, as 0 or as the 0xFFFF sentinel
Silent == Frame(NO_READING, NO_READING, NO_READING)
QuietFrames == { Quiet, Silent }

\* the burst: a hand approaching, sampled at the pace or after a long pause
BurstFrames == { Frame(50, 0, 0), Frame(70, 60, 0) }
BurstDeltas == { Pace, MAX_EPISODE_MS + 1 }

BurstSample ==
    \E raw \in BurstFrames, dt \in BurstDeltas :
        /\ steps < MaxBurst
        /\ Update(raw, clock + dt)
        /\ steps' = steps + 1
        /\ ticks' = ticks + 1
        /\ UNCHANGED <<cep, label, hold, scene>>

\* timestamps keep increasing while the field is empty
DrainSample ==
    \E raw \in QuietFrames :
        /\ steps >= MaxBurst /\ steps < MaxBurst + MaxDrain
        /\ Update(raw, clock + Pace)
        /\ steps' = steps + 1
        /\ ticks' = ticks + 1
        /\ UNCHANGED <<cep, label, hold, scene>>

DrainNext == BurstSample \/ DrainSample

\* the caller's loop keeps sampling: weak fairness of taking the next sample,
\* which is enabled exactly when DrainNext is (every DrainNext step counts one
\* sample; nothing but the length of the run disables it)
TakeSample == steps < MaxBurst + MaxDrain /\ steps' = steps + 1

SpecDrain == Init /\ [][DrainNext]_vars /\ WF_steps(TakeSample)

----------------------------------------------------------------------------
(* A static background: the same raw triple on every sample *)

MaxStatic == 5

\* no reading, below the band, in band (near, within the layer, behind it),
\* beyond the band
StaticReadings == { 0, NO_READING, 20, 50, 60, 75, 200 }
StaticDeltas == { 1, 20, 2001 }

StaticInit ==
    /\ Unobserved
    /\ SdIdle
    /\ VolIdle
    /\ scene \in [Sensors -> StaticReadings]
    /\ gp = NewPreprocessor
    /\ clock = 0
    /\ event = "None"
    /\ valid = NoFlags
    /\ smoothed = NoValues
    /\ cand = NoValues
    /\ accepted = NoFlags
    /\ steps = 0
    /\ ticks = 0
    /\ cep = ClearedEpisode
    /\ label = "Unset"
    /\ hold = 0

StaticSample ==
    \E dt \in StaticDeltas :
        /\ steps < MaxStatic
        /\ Update(scene, clock + dt)
        /\ steps' = steps + 1
        /\ ticks' = ticks + 1
        /\ UNCHANGED <<cep, label, hold, scene>>

SpecStatic == StaticInit /\ [][StaticSample]_vars

----------------------------------------------------------------------------
(* classifyEpisode applied to finalized episodes *)

\* per-sensor <<dMin, dMax>> of the episodes classified: never seen, or a
\* swing of 0, 5, 6, 20, 21 (left), 0, 5, 6, 21 (right), 0, 3, 6 (top)
NeverSeen == <<NO_READING, 0>>
LeftStats == { NeverSeen, <<50, 50>>, <<50, 55>>, <<50, 56>>, <<50, 70>>, <<50, 71>> }
RightStats == { NeverSeen, <<60, 60>>, <<60, 65>>, <<60, 66>>, <<60, 81>> }
TopStats == { NeverSeen, <<45, 45>>, <<45, 48>>, <<45, 51>> }

\* first-seen times: gaps of 0, 1, 4, 5, 1495 .. 1501 between two of them
SeenTimes == { 0, 100, 104, 105, 1600, 1601 }

\* peak approach velocities of the three sensors
PeakVels ==
    { Frame(0, 0, 0), Frame(59, 0, 0), Frame(60, 0, 0), Frame(0, 0, 150),
      Frame(59, 30, 0) }

Episode(l, r, t, seen, vel) ==
    [tStartMs |-> 100, tEndMs |-> 1700,
     dMin |-> Frame(l[1], r[1], t[1]),
     dMax |-> Frame(l[2], r[2], t[2]),
     sampleCount |-> 2, winnerChanges |-> 0,
     firstSeenMs |-> seen, lastSeenMs |-> seen,
     maxApproachVel |-> vel]

\* a sensor never valid in an episode has no first-seen time and no velocity
Consistent(e) ==
    \A i \in Sensors :
        e.dMin[i] = NO_READING => e.firstSeenMs[i] = 0 /\ e.maxApproachVel[i] = 0

ClassifyInit ==
    /\ Unobserved
    /\ SdIdle
    /\ VolIdle
    /\ scene = Quiet
    /\ gp = NewPreprocessor
    /\ clock = 0
    /\ event = "None"
    /\ valid = NoFlags
    /\ smoothed = NoValues
    /\ cand = NoValues
    /\ accepted = NoFlags
    /\ steps = 0
    /\ ticks = 0
    /\ label = "Unset"
    /\ hold = 0
    /\ \E l \in LeftStats, r \in RightStats, t \in TopStats,
          tl \in SeenTimes, tr \in SeenTimes, tt \in SeenTimes, vel \in PeakVels :
            /\ cep = Episode(l, r, t, Frame(tl, tr, tt), vel)
            /\ Consistent(cep)

\* label = classifyEpisode(ep)
Classify ==
    /\ label = "Unset"
    /\ label' = classifyEpisode(cep)
    /\ UNCHANGED <<gp, clock, event, valid, smoothed, cand, accepted, steps, ticks,
                   cep, hold, fin, readies, idleSeen, appends, scene, sdMutex, pc, uploadFile,
                   volVars>>

SpecClassify == ClassifyInit /\ [][Classify]_vars

----------------------------------------------------------------------------
(* finalizeEpisode applied to accumulated episodes *)

SampleCounts == { 0, 1, 2, 3, 255 }
Spans == { 0, 19, 20, 21, 2001 }

\* per-sensor <<dMin, dMax>>: never seen, or a swing of 0, 4, 5
SwingStatsSeen == { NeverSeen, <<50, 50>>, <<50, 54>>, <<50, 55>> }
FinalVels ==
    { Frame(0, 0, 0), Frame(199, 0, 0), Frame(0, 200, 0), Frame(199, 60, 199),
      Frame(0, 0, 201) }

FinalizeInit ==
    /\ Unobserved
    /\ SdIdle
    /\ VolIdle
    /\ scene = Quiet
    /\ gp = NewPreprocessor
    /\ event = "None"
    /\ valid = NoFlags
    /\ smoothed = NoValues
    /\ cand = NoValues
    /\ accepted = NoFlags
    /\ steps = 0
    /\ ticks = 0
    /\ label = "Unset"
    /\ hold = 0
    /\ \E n \in SampleCounts, span \in Spans, vel \in FinalVels,
          l \in SwingStatsSeen, r \in SwingStatsSeen, t \in SwingStatsSeen :
            /\ cep = [Episode(l, r, t, NoValues, vel) EXCEPT
                          !.sampleCount = n, !.tEndMs = 0]
            /\ Consistent(cep)
            /\ clock = cep.tStartMs + span

\* ok = finalizeEpisode(nowMs) on an object whose episode is cep
Finalize ==
    /\ fin = "none"
    /\ \E f \in { finalizeEpisode([gp EXCEPT !.ep = cep], clock) } :
           /\ cep' = f.g.ep
           /\ fin' = IF f.ok THEN "accepted" ELSE "rejected"
    /\ UNCHANGED <<gp, clock, event, valid, smoothed, cand, accepted, steps, ticks,
                   label, hold, readies, idleSeen, appends, scene, sdMutex, pc, uploadFile,
                   volVars>>

SpecFinalize == FinalizeInit /\ [][Finalize]_vars

----------------------------------------------------------------------------
(* The conditioner fed the same reading again and again *)

\* the readings fed: every distance of the sensing band
Readings == D_MIN_MM .. D_MAX_MM

\* one filterDistances(raw) call
Condition(raw) ==
    /\ gp' = filterDistances(gp, raw)
    /\ cand' = candidates(gp, raw)
    /\ accepted' = acceptedOf(gp, raw)
    /\ UNCHANGED <<clock, event, valid, smoothed, steps, ticks, cep, label,
                   fin, readies, idleSeen, appends, scene, sdMutex, pc, uploadFile,
                   volVars>>

\* the first sample (v on every sensor) sets the smoothed values; r is the
\* reading every sensor reports from then on
FeedFirst ==
    /\ hold = 0
    /\ \E v \in Readings, r \in Readings :
           /\ Condition(Frame(v, v, v))
           /\ hold' = r

FeedSame ==
    /\ hold # 0
    /\ Condition(Frame(hold, hold, hold))
    /\ UNCHANGED hold

FilterNext == FeedFirst \/ FeedSame

SpecFilter == Init /\ [][FilterNext]_vars

----------------------------------------------------------------------------
(* Properties of the episode state machine (specification Spec) *)

\* C1: whenever update() returns EpisodeReady, the episode of lastEpisode()
\* has sampleCount >= 2 and tEndMs - tStartMs >= MIN_EPISODE_MS, on the
\* exit-debounce path and on the timeout path alike.
C1_ReadyEpisodeIsLongEnough ==
    event = "EpisodeReady" =>
        /\ gp.ep.sampleCount >= 2
        /\ gp.ep.tEndMs - gp.ep.tStartMs >= MIN_EPISODE_MS

\* an episode accepted on the exit-debounce path (the exit counter is at its
\* threshold) whose span is exactly the minimum
C1_Witness ==
    /\ event = "EpisodeReady"
    /\ gp.exitCount = EXIT_COUNT
    /\ gp.ep.tEndMs - gp.ep.tStartMs = MIN_EPISODE_MS

\* C7: a sensor judged valid in an update() call has its smoothed distance in
\* the band [D_MIN_MM, D_MAX_MM] and at most NEAR_LAYER_TH_MM above the
\* smallest in-band smoothed distance of that sample.
C7_ValidIsInBandAndNearLayer ==
    \A i \in Sensors :
        valid[i] =>
            /\ smoothed[i] \in D_MIN_MM .. D_MAX_MM
            /\ \A j \in Sensors :
                   smoothed[j] \in D_MIN_MM .. D_MAX_MM =>
                       smoothed[i] <= smoothed[j] + NEAR_LAYER_TH_MM

\* a sample in which one sensor is valid while another in-band one is gated out
C7_Witness ==
    \E i, j \in Sensors :
        valid[i] /\ ~valid[j] /\ smoothed[j] \in D_MIN_MM .. D_MAX_MM

\* C8: in every episode reachable through update(), a sensor never valid in
\* the episode (dMin still 0xFFFF) has swing 0, and a sensor that was valid has
\* dMin <= dMax, so its 16-bit swing is dMax - dMin and at most
\* D_MAX_MM - D_MIN_MM.
C8_SwingNeverUnderflows ==
    \A i \in Sensors :
        IF gp.ep.dMin[i] = NO_READING
        THEN swingOf(gp.ep, i) = 0 /\ gp.ep.dMax[i] = 0
        ELSE /\ gp.ep.dMin[i] <= gp.ep.dMax[i]
             /\ swingOf(gp.ep, i) = gp.ep.dMax[i] - gp.ep.dMin[i]
             /\ swingOf(gp.ep, i) <= D_MAX_MM - D_MIN_MM

\* an episode with a sensor that moved and a sensor that was never valid
C8_Witness ==
    \E i, j \in Sensors :
        /\ gp.ep.dMin[i] # NO_READING /\ gp.ep.dMax[i] > gp.ep.dMin[i]
        /\ gp.ep.dMin[j] = NO_READING
        /\ gp.ep.sampleCount >= 2

\* C11: whenever finalizeEpisode rejects an episode, that update() call
\* returns None and leaves the machine in Idle with enter and exit counters 0
\* and every episode field back to its cleared value, so no EpisodeReady is
\* returned for a rejected episode.
C11_RejectedEpisodeIsDiscarded ==
    fin = "rejected" =>
        /\ event = "None"
        /\ gp.state = "Idle"
        /\ gp.enterCount = 0 /\ gp.exitCount = 0
        /\ gp.ep.sampleCount = 0 /\ gp.ep.winnerChanges = 0
        /\ gp.ep.tStartMs = 0 /\ gp.ep.tEndMs = 0
        /\ \A i \in Sensors :
               /\ gp.ep.dMin[i] = NO_READING /\ gp.ep.dMax[i] = 0
               /\ gp.ep.firstSeenMs[i] = 0 /\ gp.ep.lastSeenMs[i] = 0
               /\ gp.ep.maxApproachVel[i] = 0

\* an episode rejected on the exit path, after the clock had advanced
C11_Witness ==
    /\ fin = "rejected"
    /\ steps > INVALID_RESET_COUNT
    /\ clock >= MIN_EPISODE_MS

\* C20 as stated: an any-valid sample arriving in Idle right after an
\* any-invalid one does not move the machine to Tracking.
C20_FlickerDoesNotStartEpisode ==
    [][(gp.state = "Idle" /\ (\A i \in Sensors : ~valid[i])
          /\ (\E i \in Sensors : valid'[i]))
       => gp'.state = "Idle"]_vars

----------------------------------------------------------------------------
(* Properties of the state machine over a session (specification SpecSession) *)

AnyValid == \E i \in Sensors : valid[i]

\* C12: update() returns EpisodeReady exactly in the calls that take the
\* machine from Tracking to Cooldown (after finalizeEpisode succeeded) and
\* None in every other call; between two EpisodeReady events the machine has
\* been in Idle, so an episode yields at most one event.
C12_ReadyExactlyOnTrackingToCooldown ==
    [][/\ event' \in { "None", "EpisodeReady" }
       /\ event' = "EpisodeReady" <=> (gp.state = "Tracking" /\ gp'.state = "Cooldown")
       /\ event' = "EpisodeReady" => fin' = "accepted" /\ idleSeen]_vars

\* the second EpisodeReady of a session
C12_Witness == event = "EpisodeReady" /\ readies = 2

\* C15: the machine starts in Idle and an update() call changes the state only
\* along Idle->Tracking, Tracking->Cooldown, Tracking->Idle, Cooldown->Idle; a
\* new episode (a new start time while Tracking) begins only from Idle.
C15_OnlyFourTransitions ==
    /\ gp.state = "Idle"
    /\ [][/\ gp'.state # gp.state =>
                  <<gp.state, gp'.state>> \in
                      { <<"Idle", "Tracking">>, <<"Tracking", "Cooldown">>,
                        <<"Tracking", "Idle">>, <<"Cooldown", "Idle">> }
          /\ (gp'.state = "Tracking" /\ gp'.ep.tStartMs # gp.ep.tStartMs) =>
                  gp.state = "Idle"]_vars

\* Idle again after the Cooldown of an accepted episode, late in the session
C15_Witness == gp.state = "Idle" /\ readies = 1 /\ steps > 2 * Stretch

\* C16: in Cooldown the deadline is the finalize timestamp + COOLDOWN_MS, and
\* update() goes to Idle exactly when the sample is any-invalid and its
\* timestamp has reached the deadline; otherwise the machine stays in Cooldown.
C16_CooldownEndsOnQuietAfterDeadline ==
    [][gp.state = "Cooldown" =>
          /\ gp.cooldownUntil = gp.ep.tEndMs + COOLDOWN_MS
          /\ gp'.state = "Idle" <=> (~AnyValid' /\ clock' >= gp.cooldownUntil)
          /\ gp'.state \in { "Idle", "Cooldown" }]_vars

\* still in Cooldown past the deadline because a sensor is valid
C16_Witness ==
    gp.state = "Cooldown" /\ event = "None" /\ AnyValid /\ clock >= gp.cooldownUntil

\* C17: a sample processed in Cooldown that does not end the Cooldown changes
\* no field of the episode (the conditioner still runs on it).
C17_EpisodeFrozenInCooldown ==
    [][(gp.state = "Cooldown" /\ gp'.state = "Cooldown") => gp'.ep = gp.ep]_vars

\* a sample in Cooldown whose candidate was accepted into a smoothed value
C17_Witness ==
    /\ gp.state = "Cooldown" /\ event = "None"
    /\ \E i \in Sensors : accepted[i] /\ gp.filt[i] = cand[i]

\* C19: in Idle an any-valid sample that brings the enter counter to
\* ENTER_COUNT starts the episode in the same call: afterwards the state is
\* Tracking, enterCount is 0, tStartMs is the sample's timestamp, sampleCount
\* is 1 and the statistics hold this sample alone; an any-invalid sample in
\* Idle leaves the state Idle with enterCount 0.
C19_EpisodeStartsWithTriggeringSample ==
    [][gp.state = "Idle" =>
          /\ (AnyValid' /\ gp.enterCount + 1 >= ENTER_COUNT) =>
                /\ gp'.state = "Tracking" /\ gp'.enterCount = 0
                /\ gp'.ep.tStartMs = clock'
                /\ gp'.ep.sampleCount = 1 /\ gp'.ep.winnerChanges = 0
                /\ \A i \in Sensors :
                       /\ gp'.ep.maxApproachVel[i] = 0
                       /\ IF valid'[i]
                          THEN /\ gp'.ep.dMin[i] = smoothed'[i]
                               /\ gp'.ep.dMax[i] = smoothed'[i]
                               /\ gp'.ep.firstSeenMs[i] = clock'
                               /\ gp'.ep.lastSeenMs[i] = clock'
                          ELSE /\ gp'.ep.dMin[i] = NO_READING /\ gp'.ep.dMax[i] = 0
                               /\ gp'.ep.firstSeenMs[i] = 0
                               /\ gp'.ep.lastSeenMs[i] = 0
          /\ ~AnyValid' => gp'.state = "Idle" /\ gp'.enterCount = 0]_vars

\* the first sample of a session's second episode
C19_Witness ==
    /\ gp.state = "Tracking" /\ gp.ep.sampleCount = 1
    /\ gp.ep.tStartMs = clock /\ readies = 1

\* C13: once every raw reading is a no-reading value and timestamps keep
\* increasing, the machine eventually is in Idle, whatever state (Idle,
\* Tracking, Cooldown) the last reading left it in.
C13_SilenceLeadsToIdle ==
    (steps = MaxBurst) ~> (steps > MaxBurst /\ gp.state = "Idle")

\* Idle reached by the end of a Cooldown that silence found with a sensor
\* still valid past the deadline
C13_Witness ==
    /\ gp.state = "Idle" /\ readies = 1
    /\ steps > MaxBurst + INVALID_RESET_COUNT - 1
    /\ steps < MaxBurst + INVALID_RESET_COUNT + EXIT_COUNT

----------------------------------------------------------------------------
(* Properties of classifyEpisode (specification SpecClassify) *)

\* the features of the classified episode, stated without the model's operators
SwingL == IF cep.dMin[0] = NO_READING THEN 0 ELSE cep.dMax[0] - cep.dMin[0]
SwingR == IF cep.dMin[1] = NO_READING THEN 0 ELSE cep.dMax[1] - cep.dMin[1]
SwingT == IF cep.dMin[2] = NO_READING THEN 0 ELSE cep.dMax[2] - cep.dMin[2]
PeakVel == CHOOSE v \in { cep.maxApproachVel[i] : i \in Sensors } :
               \A i \in Sensors : cep.maxApproachVel[i] <= v
SeenL == cep.firstSeenMs[0]
SeenR == cep.firstSeenMs[1]
SeenT == cep.firstSeenMs[2]

\* the earlier nonzero first-seen time among the bottom sensors with nonzero swing
SeenBottom ==
    LET S == { cep.firstSeenMs[i] : i \in { j \in { 0, 1 } :
                   cep.firstSeenMs[j] # 0 /\
                   (IF j = 0 THEN SwingL ELSE SwingR) # 0 } }
    IN  IF S = {} THEN 0 ELSE CHOOSE x \in S : \A y \in S : x <= y

Classified == label # "Unset"
IsTap == SwingL > 20 /\ SwingR > 20 /\ PeakVel >= 60

\* everything the Left/Right rule asks for except the gap
LeftRightReady ==
    /\ SwingL # 0 /\ SwingR # 0 /\ (SwingL > 5 \/ SwingR > 5) /\ SwingT = 0
    /\ SeenL # 0 /\ SeenR # 0
IsLeftRight == LeftRightReady /\ Dist(SeenL, SeenR) \in 5 .. 1500

\* everything the Up/Down rule asks for except the gap
UpDownReady ==
    /\ SeenBottom # 0 /\ SeenT # 0
    /\ (SwingL > 5 \/ SwingR > 5 \/ SwingT > 5)
IsUpDown == UpDownReady /\ Dist(SeenBottom, SeenT) \in 5 .. 1500

\* C2 as stated: for a non-Tap episode that qualifies for the Left/Right rule,
\* Left when the left sensor was seen first, Right when the right one was.
C2_LeftFirstGivesLeft ==
    (Classified /\ ~IsTap /\ IsLeftRight) =>
        /\ SeenL < SeenR => label = "Left"
        /\ SeenR < SeenL => label = "Right"

\* C2 (amended): for a non-Tap episode that qualifies for the Left/Right rule,
\* classifyEpisode returns Right when the left sensor's first-seen time is the
\* earlier one and Left when the right sensor's is.
C2_LeftFirstGivesRight ==
    (Classified /\ ~IsTap /\ IsLeftRight) =>
        /\ SeenL < SeenR => label = "Right"
        /\ SeenR < SeenL => label = "Left"

\* left seen at 100 ms, right at 105 ms, swings 20 and 21, top never seen
C2_Witness ==
    /\ Classified /\ ~IsTap /\ IsLeftRight
    /\ SeenL = 100 /\ SeenR = 105 /\ SwingL = 20 /\ SwingR = 21
    /\ label = "Right"

\* C3: classifyEpisode returns Tap exactly for the episodes with left swing
\* > 20, right swing > 20 and largest peak approach velocity >= 60, whatever
\* the first-seen times and the top sensor's activity are.
C3_TapExactly == Classified => (label = "Tap" <=> IsTap)

\* a Tap at the velocity floor that also qualifies for the Left/Right rule
C3_Witness == label = "Tap" /\ PeakVel = 60 /\ IsLeftRight

\* C4: for an episode that matches neither the Tap nor the Left/Right rule and
\* qualifies for the Up/Down rule, classifyEpisode returns Up when bottom
\* precedes top and Down when top precedes bottom.
C4_BottomFirstGivesUp ==
    (Classified /\ ~IsTap /\ ~IsLeftRight /\ IsUpDown) =>
        /\ SeenBottom < SeenT => label = "Up"
        /\ SeenT < SeenBottom => label = "Down"

\* bottom is the right sensor (seen before the left one), top seen later
C4_Witness ==
    /\ Classified /\ ~IsTap /\ ~IsLeftRight /\ IsUpDown
    /\ SeenR # 0 /\ SeenR < SeenL /\ SeenBottom = SeenR /\ SeenBottom < SeenT
    /\ label = "Up"

\* C5: the gap bounds of both swipe rules are inclusive: a rule whose other
\* conditions hold matches exactly when the gap between the two compared
\* first-seen times is in [5, 1500] (not 0, not 1 .. 4, not above 1500), and
\* the result is None when no rule matches.
C5_GapBoundsInclusive ==
    (Classified /\ ~IsTap) =>
        /\ LeftRightReady =>
               (label \in { "Left", "Right" } <=> Dist(SeenL, SeenR) \in 5 .. 1500)
        /\ (UpDownReady /\ ~IsLeftRight) =>
               (label \in { "Up", "Down" } <=> Dist(SeenBottom, SeenT) \in 5 .. 1500)
        /\ (~IsLeftRight /\ ~IsUpDown) => label = "None"

\* the Left/Right rule matching at a gap of exactly 5 ms
C5_Witness ==
    /\ Classified /\ ~IsTap /\ LeftRightReady
    /\ Dist(SeenL, SeenR) = 5
    /\ label = "Left"

----------------------------------------------------------------------------
(* Properties of finalizeEpisode (specification SpecFinalize) *)

Judged == fin # "none"
MaxSwing == Max2(Max2(SwingL, SwingR), SwingT)
Span == cep.tEndMs - cep.tStartMs

----------------------------------------------------------------------------
(* Properties of a static background (specification SpecStatic) *)

\* C18: with the same raw triple on every sample and increasing timestamps,
\* update() never returns EpisodeReady, whatever the triple is.
C18_StaticSceneNeverReady == event # "EpisodeReady" /\ readies = 0

\* an object resting in the band: its episode ran into the timeout and was
\* rejected
C18_Witness ==
    /\ fin = "rejected"
    /\ \E i \in Sensors : scene[i] \in D_MIN_MM .. D_MAX_MM
    /\ clock > MAX_EPISODE_MS

----------------------------------------------------------------------------
(* Properties of the smoothing (specification SpecFilter) *)

\* feeding the held reading once more changes no smoothed value
Settled == hold # 0 /\ \A i \in Sensors : EmaStep(gp.filt[i], hold) = gp.filt[i]

\* C9 as stated: the smoothed value ends up equal to the repeated reading,
\* i.e. it never comes to rest anywhere else.
C9_RestsOnlyAtReading ==
    Settled => \A i \in Sensors : gp.filt[i] = hold

\* C9 (amended): with the same accepted in-band reading r fed on every
\* following sample, a set smoothed value never passes r; while it is above r,
\* or more than 3 below r, every sample moves it strictly closer to r; at r it
\* stays at r. So a value at or above r eventually equals r, and a value below
\* r eventually comes to rest at most 3 below r (it need not reach r).
C9_ConvergesFromAboveStallsBelow ==
    [][\A i \in Sensors :
          (hold # 0 /\ gp.filt[i] # 0) =>
              /\ gp.filt[i] >= hold => gp'.filt[i] >= hold
              /\ gp.filt[i] <= hold => gp'.filt[i] <= hold
              /\ (gp.filt[i] > hold \/ gp.filt[i] < hold - 3) =>
                     Dist(gp'.filt[i], hold) < Dist(gp.filt[i], hold)
              /\ gp.filt[i] \in (hold - 3) .. hold => gp'.filt[i] >= gp.filt[i]]_vars

\* a smoothed value at rest strictly below the repeated reading
C9_Witness ==
    /\ Settled
    /\ accepted[0] /\ cand[0] = hold
    /\ gp.filt[0] = hold - 3

\* C10: every accepted update of an already-set smoothed value yields a value
\* between the old smoothed value and the accepted candidate, inclusive.
C10_EmaStaysBetween ==
    [][\A i \in Sensors :
          (accepted'[i] /\ gp.filt[i] # 0) =>
              /\ Min2(gp.filt[i], cand'[i]) <= gp'.filt[i]
              /\ gp'.filt[i] <= Max2(gp.filt[i], cand'[i])]_vars

\* an accepted update that moved a set smoothed value without reaching the
\* candidate (a first acceptance would have set it to the candidate)
C10_Witness ==
    /\ hold # 0
    /\ accepted[0] /\ cand[0] = hold
    /\ gp.filt[0] # 0 /\ gp.filt[0] > hold + 3

----------------------------------------------------------------------------
(* A brief dropout in the middle of a gesture *)

\* the hand is in range during the first MaxBurst samples; its readings are
\* held for INVALID_RESET_COUNT more samples, the last of which is the first
\* any-invalid one; the hand may be back during the MaxBurst samples that
\* follow, and the caller takes MaxDropout samples in all
MaxDropout == 110

InRange(n) ==
    \/ n < MaxBurst
    \/ /\ n >= MaxBurst + INVALID_RESET_COUNT
       /\ n < 2 * MaxBurst + INVALID_RESET_COUNT

\* one sample of a caller that passes one of the frames, dt ms after the
\* previous sample
Paced(frames, dt) ==
    \E raw \in frames :
        /\ steps < MaxDropout
        /\ raw # Quiet => InRange(steps)
        /\ Update(raw, clock + dt)
        /\ steps' = steps + 1
        /\ ticks' = ticks + 1
        /\ UNCHANGED <<cep, label, hold, scene>>

DropoutSample == Paced(SessionFrames, Pace)

SpecDropout == Init /\ [][DropoutSample]_vars

\* the same caller with a sampling period of 1 ms and a hand that jumps from
\* the far end of the band to the near end
FastFrames == { Quiet, Frame(D_MAX_MM, 0, 0), Frame(D_MIN_MM, 0, 0) }

FastSample == Paced(FastFrames, 1)

SpecFast == Init /\ [][FastSample]_vars

----------------------------------------------------------------------------
(* The exit debounce and the timeout of Tracking *)

C22_TimeoutAppendsThenFinalizes ==
    [][AnyValid' =>
          /\ (gp.state = "Tracking"
                 /\ clock' - gp.ep.tStartMs > MAX_EPISODE_MS) =>
                 /\ fin' # "none"
                 /\ fin' = "accepted" =>
                        /\ gp'.state = "Cooldown"
                        /\ event' = "EpisodeReady"
                        /\ gp'.ep.tStartMs = gp.ep.tStartMs
                        /\ gp'.ep.tEndMs = clock'
                        /\ \A i \in Sensors :
                               valid'[i] => gp'.ep.lastSeenMs[i] = clock'
                 /\ fin' = "rejected" =>
                        gp'.state = "Idle" /\ event' = "None"
          /\ gp'.state = "Tracking" =>
                 clock' - gp'.ep.tStartMs <= MAX_EPISODE_MS]_vars

\* an episode ended by the timeout and handed over, the late sample included
C22_Witness ==
    /\ event = "EpisodeReady"
    /\ AnyValid
    /\ gp.ep.tEndMs - gp.ep.tStartMs > MAX_EPISODE_MS
    /\ \E i \in Sensors : gp.ep.lastSeenMs[i] = gp.ep.tEndMs

----------------------------------------------------------------------------
(* The nearest-object gate of the conditioner *)

\* the candidates of the latest call that carry a distance
ReadingsOf(m) == { m[i] : i \in { j \in Sensors : isReading(m[j]) } }

\* d is at most NEAR_LAYER_TH_MM above the smallest member of ds
WithinLayerOf(d, ds) ==
    \E z \in ds : (\A q \in ds : z <= q) /\ d <= z + NEAR_LAYER_TH_MM

\* C23: every smoothed value is 0 or in band, and a call changes one to a
\* nonzero value only if that sensor's candidate is in band and at most
\* NEAR_LAYER_TH_MM above the smallest non-sentinel candidate of the call
C23_OnlyGatedReadingsAdmitted ==
    [][\A i \in Sensors :
          /\ gp'.filt[i] = 0 \/ inBand(gp'.filt[i])
          /\ (gp'.filt[i] # gp.filt[i] /\ gp'.filt[i] # 0) =>
                 /\ inBand(cand'[i])
                 /\ WithinLayerOf(cand'[i], ReadingsOf(cand'))]_vars

\* a sensor holds a smoothed value while another sensor's in-band candidate
\* was refused and its smoothed value stayed unset
C23_Witness ==
    \E i, j \in Sensors :
        /\ gp.filt[i] # 0
        /\ inBand(cand[j])
        /\ ~accepted[j]
        /\ gp.filt[j] = 0

\* the candidates of the latest call that lie in the sensing band
InBandOf(m) == { m[i] : i \in { j \in Sensors : inBand(m[j]) } }

\* C24: the nearest-layer gate is measured from the smallest in-band
\* candidate: every in-band candidate at most NEAR_LAYER_TH_MM above it is
\* accepted, whatever the other sensors report below the band
C24_NearestInBandSetsTheLayer ==
    \A i \in Sensors :
        (inBand(cand[i]) /\ WithinLayerOf(cand[i], InBandOf(cand))) =>
            accepted[i] /\ gp.invalidCount[i] = 0

\* C25: a sample in which no sensor has an in-band candidate is all-invalid:
\* the update() call that processed it found no sensor valid
C25_NoInBandCandidateNoValidSensor ==
    (steps > 0 /\ InBandOf(cand) = {}) => ~AnyValid

----------------------------------------------------------------------------
(* The conditioner alone, until its invalid counters saturate *)

\* the caller passes MaxGate frames of its choice and then MaxFade frames
\* without a reading
MaxGate == 2
MaxFade == 256

GateFrames ==
    { Quiet, Silent,
      Frame(50, 0, 0), Frame(50, 60, 0), Frame(50, 75, 0),
      Frame(20, 50, 45), Frame(200, NO_READING, 45) }

\* one filterDistances(raw) call, counted
Conditioned(raw) ==
    /\ gp' = filterDistances(gp, raw)
    /\ cand' = candidates(gp, raw)
    /\ accepted' = acceptedOf(gp, raw)
    /\ steps' = steps + 1
    /\ UNCHANGED <<clock, event, valid, smoothed, ticks, cep, label, hold,
                   fin, readies, idleSeen, appends, scene, sdMutex, pc, uploadFile,
                   volVars>>

GateSample ==
    \E raw \in GateFrames :
        /\ steps < MaxGate
        /\ Conditioned(raw)

FadeSample ==
    \E raw \in QuietFrames :
        /\ steps >= MaxGate /\ steps < MaxGate + MaxFade
        /\ Conditioned(raw)

GateNext == GateSample \/ FadeSample

SpecGate == Init /\ [][GateNext]_vars

\* C26: a call that rejects a sensor's candidate counts it (the count stops
\* at 255 and never goes down), keeps the smoothed value while the count is
\* below INVALID_RESET_COUNT and sets it to 0 from then on; a call that
\* accepts the candidate sets the count to 0
C26_InvalidCounterHoldsThenClears ==
    [][\A i \in Sensors :
          /\ accepted'[i] => gp'.invalidCount[i] = 0
          /\ ~accepted'[i] =>
                 /\ gp'.invalidCount[i] = Min2(255, gp.invalidCount[i] + 1)
                 /\ gp'.invalidCount[i] < INVALID_RESET_COUNT =>
                        gp'.filt[i] = gp.filt[i]
                 /\ gp'.invalidCount[i] >= INVALID_RESET_COUNT =>
                        gp'.filt[i] = 0]_vars

\* every counter has met 255 and stayed there through further rejections
C26_Witness ==
    /\ steps = MaxGate + MaxFade
    /\ \A i \in Sensors : gp.invalidCount[i] = 255 /\ gp.filt[i] = 0

----------------------------------------------------------------------------
(* The statistics appendSample keeps *)

\* this step's update() call appended its sample to an episode: it started
\* one, or it met an any-valid sample in Tracking
Appending ==
    \/ gp.state = "Idle" /\ gp'.state = "Tracking"
    \/ gp.state = "Tracking" /\ AnyValid'

\* sensor i was valid in an earlier sample of the episode being tracked (its
\* minimum distance has been set)
SeenBefore(i) == gp.state = "Tracking" /\ gp.ep.dMin[i] # NO_READING

\* C27: when a sample is appended, a sensor valid in it gets the sample's
\* timestamp as last-seen time, and as first-seen time if it was not valid
\* earlier in the episode; otherwise the first-seen time stays what it was; a
\* sensor not valid in the sample keeps both times (0 if never valid)
C27_FirstSeenSetOnceLastSeenFollows ==
    [][(Appending /\ gp'.state # "Idle") =>
          \A i \in Sensors :
              IF valid'[i]
              THEN /\ gp'.ep.lastSeenMs[i] = clock'
                   /\ gp'.ep.firstSeenMs[i] =
                          IF SeenBefore(i) THEN gp.ep.firstSeenMs[i] ELSE clock'
              ELSE /\ gp'.ep.lastSeenMs[i] =
                          IF SeenBefore(i) THEN gp.ep.lastSeenMs[i] ELSE 0
                   /\ gp'.ep.firstSeenMs[i] =
                          IF SeenBefore(i) THEN gp.ep.firstSeenMs[i] ELSE 0]_vars

\* the velocity the latest sample yields for sensor i, in exact arithmetic:
\* (previous smoothed distance - current one) * 1000 / elapsed ms; -1 when
\* the sensor is not valid, has no previous value, or is not approaching
TrueApproachVel(i) ==
    LET dv == gp.lastFiltForVel[i] - smoothed'[i]
        dt == clock' - gp.lastTimeForVel[i]
    IN  IF valid'[i] /\ gp.lastFiltForVel[i] # 0 /\ dt > 0 /\ dv > 0
        THEN (dv * 1000) \div dt
        ELSE -1

----------------------------------------------------------------------------
(* A long gesture: the hand stays in range *)

\* the hand approaches during the first MaxBurst samples and then stays
\* where it is; the caller takes MaxLong samples at the pace
MaxLong == 260

LongApproach ==
    \E raw \in BurstFrames :
        /\ steps < MaxBurst
        /\ Update(raw, clock + Pace)
        /\ scene' = raw
        /\ steps' = steps + 1
        /\ ticks' = ticks + 1
        /\ UNCHANGED <<cep, label, hold>>

LongHold ==
    /\ steps >= MaxBurst /\ steps < MaxLong
    /\ Update(scene, clock + Pace)
    /\ steps' = steps + 1
    /\ ticks' = ticks + 1
    /\ UNCHANGED <<cep, label, hold, scene>>

LongNext == LongApproach \/ LongHold

SpecLong == Init /\ [][LongNext]_vars

\* C29: while Tracking, sampleCount is the number of samples appended since
\* the episode started, however long the episode is
C29_SampleCountCountsAppendedSamples ==
    gp.state = "Tracking" => gp.ep.sampleCount = appends

----------------------------------------------------------------------------
(* The tasks that share the SD card *)

At(t, l) == pc[t] = l
Goto(t, l) == pc' = [pc EXCEPT ![t] = l]

\* task t enters xSemaphoreTake(m, timeout) and blocks
Take(t, from, wait) ==
    /\ At(t, from)
    /\ Goto(t, wait)
    /\ UNCHANGED <<sdMutex, uploadFile, gestureVars, volVars>>

\* xSemaphoreTake returns pdTRUE: the mutex was free and is now held by t
Acquire(t, wait, in) ==
    /\ At(t, wait)
    /\ sdMutex = "none"
    /\ sdMutex' = t
    /\ Goto(t, in)
    /\ UNCHANGED <<uploadFile, gestureVars, volVars>>

\* xSemaphoreTake returns pdFALSE: the mutex stayed held for the whole timeout
TimeOut(t, wait, to) ==
    /\ At(t, wait)
    /\ sdMutex # "none"
    /\ Goto(t, to)
    /\ UNCHANGED <<sdMutex, uploadFile, gestureVars, volVars>>

\* the SD operations are done: xSemaphoreGive(m)
Give(t, in, to) ==
    /\ At(t, in)
    /\ sdMutex' = "none"
    /\ Goto(t, to)
    /\ UNCHANGED <<uploadFile, gestureVars, volVars>>

\* a step of task t that touches neither the mutex nor the upload file
Step(t, from, to) ==
    /\ At(t, from)
    /\ Goto(t, to)
    /\ UNCHANGED <<sdMutex, uploadFile, gestureVars, volVars>>

\* Logger::writeLine, called by the logging task
writeLineCall == Take("logTask", "idle", "writeLineTake")
writeLineTaken == Acquire("logTask", "writeLineTake", "writeLineFile")
writeLineDropped == TimeOut("logTask", "writeLineTake", "idle")
writeLineDone == Give("logTask", "writeLineFile", "idle")

\* Logger::init: the header line is written only if the 10 ms take succeeds
initCall == Take("logTask", "idle", "initTake")
initTaken == Acquire("logTask", "initTake", "initFile")
initSkipped == TimeOut("logTask", "initTake", "idle")
initDone == Give("logTask", "initFile", "idle")

\* WebFileManager::makeFileTable, called by handleRoot
makeFileTableCall == Take("webTask", "idle", "tableTake")
makeFileTableTaken == Acquire("webTask", "tableTake", "tableFile")
makeFileTableBusy == TimeOut("webTask", "tableTake", "idle")
makeFileTableDone == Give("webTask", "tableFile", "idle")

\* WebFileManager::handleDelete: the file is removed, or it is not found and
\* Logger::logf is called with the mutex held: writeLine's own take times out
\* and the line is dropped
handleDeleteCall == Take("webTask", "idle", "deleteTake")
handleDeleteTaken == Acquire("webTask", "deleteTake", "deleteFile")
handleDeleteBusy == TimeOut("webTask", "deleteTake", "idle")
handleDeleteRemoved == Give("webTask", "deleteFile", "idle")
handleDeleteNotFound == Step("webTask", "deleteFile", "deleteLogTake")
handleDeleteLogDropped == TimeOut("webTask", "deleteLogTake", "deleteGive")
handleDeleteDone == Give("webTask", "deleteGive", "idle")

\* WebFileManager::handleDownload
handleDownloadCall == Take("webTask", "idle", "downloadTake")
handleDownloadTaken == Acquire("webTask", "downloadTake", "downloadFile")
handleDownloadBusy == TimeOut("webTask", "downloadTake", "idle")
\* variant: the download returns without xSemaphoreGive
handleDownloadKeepsMutex == Step("webTask", "downloadFile", "idle")
handleDownloadDone == Give("webTask", "downloadFile", "idle")

\* WebFileManager::handleUpload, UPLOAD_FILE_START: under the mutex the old
\* file is removed and the new one opened (SD.open may fail); without the
\* mutex nothing is opened
handleUploadStart == Take("webTask", "idle", "uploadTake")
handleUploadTaken == Acquire("webTask", "uploadTake", "uploadOpen")
handleUploadBusy == TimeOut("webTask", "uploadTake", "uploading")
handleUploadOpened ==
    /\ At("webTask", "uploadOpen")
    /\ uploadFile' \in BOOLEAN
    /\ sdMutex' = "none"
    /\ Goto("webTask", "uploading")
    /\ UNCHANGED <<gestureVars, volVars>>

\* UPLOAD_FILE_WRITE: if (uploadFile) uploadFile.write(...), no take
handleUploadWrite ==
    /\ uploadFile
    /\ Step("webTask", "uploading", "uploadWrite")
handleUploadWritten == Step("webTask", "uploadWrite", "uploading")

\* UPLOAD_FILE_END: if (uploadFile) uploadFile.close(), no take; else
\* Logger::log, whose writeLine takes the mutex
handleUploadEnd ==
    /\ uploadFile
    /\ Step("webTask", "uploading", "uploadClose")
handleUploadClosed ==
    /\ At("webTask", "uploadClose")
    /\ uploadFile' = FALSE
    /\ Goto("webTask", "idle")
    /\ UNCHANGED <<sdMutex, gestureVars, volVars>>
handleUploadFailed ==
    /\ ~uploadFile
    /\ Take("webTask", "uploading", "uploadLogTake")
handleUploadLogTaken == Acquire("webTask", "uploadLogTake", "uploadLogFile")
handleUploadLogDropped == TimeOut("webTask", "uploadLogTake", "idle")
handleUploadLogDone == Give("webTask", "uploadLogFile", "idle")

\* Speaker::audioTask: SD.open, parseWavHeader and f.seek, then the playing
\* loop of f.read and I2S writes, then f.close; no call takes the mutex
audioOpen == Step("audioTask", "idle", "open")
audioOpenFailed == Step("audioTask", "open", "idle")
audioOpened == Step("audioTask", "open", "header")
audioSkip == Step("audioTask", "header", "close")
audioPlay == Step("audioTask", "header", "play")
audioRead == Step("audioTask", "play", "read")
audioReadDone == Step("audioTask", "read", "play")
audioTrackEnd == Step("audioTask", "read", "close")
audioLeave == Step("audioTask", "play", "close")
audioClosed == Step("audioTask", "close", "idle")

SdNext ==
    \/ initCall \/ initTaken \/ initSkipped \/ initDone
    \/ writeLineCall \/ writeLineTaken \/ writeLineDropped \/ writeLineDone
    \/ makeFileTableCall \/ makeFileTableTaken \/ makeFileTableBusy
    \/ makeFileTableDone
    \/ handleDeleteCall \/ handleDeleteTaken \/ handleDeleteBusy
    \/ handleDeleteRemoved \/ handleDeleteNotFound \/ handleDeleteLogDropped
    \/ handleDeleteDone
    \/ handleDownloadCall \/ handleDownloadTaken \/ handleDownloadBusy
    \/ handleDownloadDone
    \/ handleUploadStart \/ handleUploadTaken \/ handleUploadBusy
    \/ handleUploadOpened \/ handleUploadWrite \/ handleUploadWritten
    \/ handleUploadEnd \/ handleUploadClosed \/ handleUploadFailed
    \/ handleUploadLogTaken \/ handleUploadLogDropped \/ handleUploadLogDone
    \/ audioOpen \/ audioOpenFailed \/ audioOpened \/ audioSkip \/ audioPlay
    \/ audioRead \/ audioReadDone \/ audioTrackEnd \/ audioLeave
    \/ audioClosed

SpecSd == Init /\ [][SdNext]_vars

\* the places where a task opens, reads, writes, removes or closes SD files
SdAccess ==
    { "initFile", "writeLineFile", "tableFile", "deleteFile", "downloadFile",
      "uploadOpen", "uploadWrite", "uploadClose", "uploadLogFile",
      "open", "header", "read", "close" }

InSd(t) == pc[t] \in SdAccess

\* C30: a task is inside an SD access only while it holds the SD mutex, so no
\* two tasks are inside an SD access at the same time
C30_SdAccessOnlyUnderMutex ==
    /\ \A t \in Tasks : InSd(t) => sdMutex = t
    /\ \A t, u \in Tasks : (InSd(t) /\ InSd(u)) => t = u

----------------------------------------------------------------------------
(* What a return to Idle leaves behind *)

\* C32: after an update() call that leaves the machine in Idle, the three
\* smoothed values are 0 and the episode lastEpisode() returns is cleared
C32_IdleMeansClearedFiltersAndEpisode ==
    (steps > 0 /\ gp.state = "Idle") =>
        /\ \A i \in Sensors : gp.filt[i] = 0
        /\ gp.ep = ClearedEpisode

\* an episode rejected on a sample that had valid sensors: the smoothed
\* values this call judged were set, and are cleared with the episode
C32_Witness ==
    /\ gp.state = "Idle"
    /\ fin = "rejected"
    /\ AnyValid
    /\ \E i \in Sensors : smoothed[i] # 0 /\ gp.filt[i] = 0

\* sensor i was valid in a sample of the episode
SeenInEpisode(i) == gp.ep.dMin[i] # NO_READING

\* C33: in Tracking and in Cooldown, with timestamps above 0, every sensor
\* seen in the episode has tStartMs <= firstSeenMs <= lastSeenMs <= the latest
\* timestamp, some sensor was first seen at tStartMs, a first-seen time is
\* nonzero exactly for the sensors seen, and when EpisodeReady is returned no
\* last-seen time is later than tEndMs
C33_SeenTimesAreOrdered ==
    gp.state \in { "Tracking", "Cooldown" } =>
        /\ \A i \in Sensors :
               /\ SeenInEpisode(i) <=> gp.ep.firstSeenMs[i] # 0
               /\ SeenInEpisode(i) =>
                      /\ gp.ep.tStartMs <= gp.ep.firstSeenMs[i]
                      /\ gp.ep.firstSeenMs[i] <= gp.ep.lastSeenMs[i]
                      /\ gp.ep.lastSeenMs[i] <= clock
               /\ event = "EpisodeReady" => gp.ep.lastSeenMs[i] <= gp.ep.tEndMs
        /\ \E i \in Sensors : gp.ep.firstSeenMs[i] = gp.ep.tStartMs

\* an episode handed over in which one sensor was seen from the start and
\* another one only later, and both until before the end
C33_Witness ==
    /\ event = "EpisodeReady"
    /\ \E i, j \in Sensors :
           /\ gp.ep.firstSeenMs[i] = gp.ep.tStartMs
           /\ gp.ep.firstSeenMs[j] > gp.ep.tStartMs
           /\ gp.ep.lastSeenMs[j] < gp.ep.tEndMs

----------------------------------------------------------------------------
(* Take and give of the SD mutex are paired *)

\* the positions between a successful xSemaphoreTake and its xSemaphoreGive
Bracketed ==
    { "initFile", "writeLineFile", "tableFile", "deleteFile", "deleteLogTake",
      "deleteGive", "downloadFile", "uploadOpen", "uploadLogFile" }

\* C34: a task holds the SD mutex exactly between a successful take and the
\* give of the same call of Logger::init, Logger::writeLine, makeFileTable,
\* handleUpload, handleDelete or handleDownload: the mutex is given only by
\* the task that took it, and it is free whenever no call is in progress
C34_MutexNeverLeaked ==
    /\ \A t \in Tasks : sdMutex = t <=> pc[t] \in Bracketed
    /\ (\A t \in Tasks : pc[t] = "idle") => sdMutex = "none"

\* the web task took the mutex for an upload's start and gave it back, and
\* the logger then took it
C34_Witness ==
    /\ uploadFile
    /\ pc["webTask"] = "uploading"
    /\ pc["logTask"] = "writeLineFile"
    /\ sdMutex = "logTask"

----------------------------------------------------------------------------
(* Volume commands: the gesture task's volumeUp() and volumeDown() against
   the audio task's read-and-clear of g_cmdVolDelta. The variable is a
   volatile int shared without a lock or an atomic: an increment is a load
   and a store, and the steps of the two tasks interleave freely. *)

\* the gesture code issues MaxCmds volume commands at most
MaxCmds == 4

CmdAt(t, l) == cmdPc[t] = l
CmdGoto(t, l) == cmdPc' = [cmdPc EXCEPT ![t] = l]

\* the gain after a volume change of d steps
clampVolume(v) == IF v < 0 THEN 0 ELSE IF v > VOL_MAX THEN VOL_MAX ELSE v

\* volumeUp(): g_cmdVolDelta++ loads the variable ...
volumeUpLoad ==
    /\ CmdAt("gestureTask", "idle")
    /\ ups + downs < MaxCmds
    /\ reg' = g_cmdVolDelta
    /\ ups' = ups + 1
    /\ CmdGoto("gestureTask", "upStore")
    /\ UNCHANGED <<g_cmdVolDelta, g_volume, delta, downs, applied,
                   gestureVars, sdVars>>

\* ... and stores the loaded value plus one
volumeUpStore ==
    /\ CmdAt("gestureTask", "upStore")
    /\ g_cmdVolDelta' = I32(reg + 1)
    /\ CmdGoto("gestureTask", "idle")
    /\ UNCHANGED <<g_volume, delta, reg, ups, downs, applied,
                   gestureVars, sdVars>>

\* volumeDown(): g_cmdVolDelta-- loads the variable ...
volumeDownLoad ==
    /\ CmdAt("gestureTask", "idle")
    /\ ups + downs < MaxCmds
    /\ reg' = g_cmdVolDelta
    /\ downs' = downs + 1
    /\ CmdGoto("gestureTask", "downStore")
    /\ UNCHANGED <<g_cmdVolDelta, g_volume, delta, ups, applied,
                   gestureVars, sdVars>>

\* ... and stores the loaded value minus one
volumeDownStore ==
    /\ CmdAt("gestureTask", "downStore")
    /\ g_cmdVolDelta' = I32(reg - 1)
    /\ CmdGoto("gestureTask", "idle")
    /\ UNCHANGED <<g_volume, delta, reg, ups, downs, applied,
                   gestureVars, sdVars>>

\* audioTask, paused or playing: if (g_cmdVolDelta != 0)
audioVolTest ==
    /\ CmdAt("audioTask", "idle")
    /\ g_cmdVolDelta # 0
    /\ CmdGoto("audioTask", "read")
    /\ UNCHANGED <<g_cmdVolDelta, g_volume, delta, reg, ups, downs, applied,
                   gestureVars, sdVars>>

\* int delta = g_cmdVolDelta;
audioVolRead ==
    /\ CmdAt("audioTask", "read")
    /\ delta' = g_cmdVolDelta
    /\ CmdGoto("audioTask", "clear")
    /\ UNCHANGED <<g_cmdVolDelta, g_volume, reg, ups, downs, applied,
                   gestureVars, sdVars>>

\* g_cmdVolDelta = 0;
audioVolClear ==
    /\ CmdAt("audioTask", "clear")
    /\ g_cmdVolDelta' = 0
    /\ CmdGoto("audioTask", "apply")
    /\ UNCHANGED <<g_volume, delta, reg, ups, downs, applied,
                   gestureVars, sdVars>>

\* g_volume += 0.1f * delta, kept within 0.0f .. 2.0f
audioVolApply ==
    /\ CmdAt("audioTask", "apply")
    /\ g_volume' = clampVolume(g_volume + VOL_STEP * delta)
    /\ applied' = applied + delta
    /\ CmdGoto("audioTask", "idle")
    /\ UNCHANGED <<g_cmdVolDelta, delta, reg, ups, downs,
                   gestureVars, sdVars>>

VolNext ==
    \/ volumeUpLoad \/ volumeUpStore \/ volumeDownLoad \/ volumeDownStore
    \/ audioVolTest \/ audioVolRead \/ audioVolClear \/ audioVolApply

SpecVolume == Init /\ [][VolNext]_vars

\* no volume command is pending: both tasks are outside the volume code and
\* g_cmdVolDelta is 0
NoCommandPending ==
    /\ \A t \in CmdTasks : CmdAt(t, "idle")
    /\ g_cmdVolDelta = 0

\* C31: once no volume command is pending, the sum of the deltas the audio
\* task applied is the number of volumeUp() calls minus the number of
\* volumeDown() calls: no command is lost or applied twice
C31_VolumeCommandsAllApplied ==
    NoCommandPending => applied = ups - downs

====
